---- MODULE Spec2Model ----
(***************************************************************************)
(* State-machine model of the QR code generator: QRGenerator (generate,    *)
(* regenerate, clear, updateOptions and the fire-and-poll render check),   *)
(* HistoryManager (the stored log under 'qr-history'), App (the form       *)
(* submit and the qr:generated listener), CustomizationManager (option     *)
(* handlers, debounced changes, color validation, presets, reset,          *)
(* applyCustomization and the check of its preview), ContentParser (the    *)
(* parse and format methods of the six content types and the submission of *)
(* the form), DownloadManager (the three exports and the click listeners   *)
(* of their buttons), ErrorHandler (handleError and the error history) and *)
(* the loading overlay and messages of UIManager.                          *)
(*                                                                         *)
(* The QRCode.js library, the DOM and localStorage are outside the         *)
(* repository: the library call is a nondeterministic choice between       *)
(* drawing a canvas, drawing nothing and throwing.  Timestamps are         *)
(* modelled by the order of the calls.                                     *)
(***************************************************************************)
EXTENDS Integers, Sequences, FiniteSets, TLC

VARIABLES
    options,         \* QRGenerator.options (stored options of the service)
    currentQRCode,   \* QRGenerator.currentQRCode: <<>> (null) or <<record>>
    container,       \* the #qrcode element: [msg, canvas]
    pending,         \* generate calls waiting for their 100 ms render check (FIFO),
                     \* each [content, options, via]: via names the caller that awaits it
    nGenerated,      \* number of qr:generated events dispatched so far
    lastGenerated,   \* detail of the last qr:generated event: <<>> or <<record>>
    stored,          \* localStorage['qr-history'] as a sequence (<<>> when absent)
    storageFault,    \* "none", "read" (stored value unreadable) or "write" (set fails)
    nextId,          \* source of Utils.generateId()
    currentOptions,  \* CustomizationManager.currentOptions
    presets,         \* localStorage['qr-presets']: preset name -> saved options
    currentType,     \* ContentParser.currentType
    form,            \* the values of the fields of the content forms
    errorHistory,    \* ErrorHandler.errorHistory, each entry [context, seq]
    nErrors,         \* number of handleError calls so far (orders the timestamps)
    loading,         \* the loading overlay of UIManager is shown
    downloadListeners, \* click listeners registered on each download button
    previewPending,  \* applyCustomization calls waiting for their preview's check
    debounceTimer,   \* CustomizationManager.debounceTimer: <<>> or <<[key, value]>>
    lastDebounced,   \* per option key, the last value given to debouncedUpdate
    last             \* the last operation performed:
                     \* [op, arg, result, limit, shown, downloads]

vars == <<options, currentQRCode, container, pending, nGenerated, lastGenerated,
          stored, storageFault, nextId, currentOptions, presets, currentType, form,
          errorHistory, nErrors, loading, downloadListeners, previewPending,
          debounceTimer, lastDebounced, last>>

qrVars == <<options, currentQRCode, container, pending, nGenerated, lastGenerated>>
histVars == <<stored, storageFault>>
parserVars == <<currentType, form>>
errVars == <<errorHistory, nErrors>>
uiVars == <<loading, downloadListeners, previewPending>>
debounceVars == <<debounceTimer, lastDebounced>>

----------------------------------------------------------------------------
(* Bounds *)

\* maxItems of the HistoryManager under analysis (the App passes 10).
MaxItems == 2

\* Ids handed out by Utils.generateId() before the model stops generating.
MaxId == 3

\* Generate calls that may wait for their render check at the same time.
MaxPending == 2

\* Longest color string fed to the color text field.
MaxColorLen == 8

\* Direct appends to the history before the history model stops appending.
MaxAppends == 4

\* Longest phone number typed into the phone form (besides the example).
MaxPhoneLen == 3

\* Longest address typed into the email form (besides the example).
MaxEmailLen == 5

\* Errors handled before the model stops taking steps that fail.
MaxErrors == 1

\* handleError calls made on the ErrorHandler alone.
MaxLogged == 52

----------------------------------------------------------------------------
(* Values *)

Null == << >>

Some(x) == <<x>>

\* What the last step did: the operation, its argument, how it ended, the
\* capacity limit it applied, the messages it showed to the user and the
\* number of file downloads it started.
Op(name, arg, result) ==
    [op |-> name, arg |-> arg, result |-> result, limit |-> 0, shown |-> << >>,
     downloads |-> 0]

\* The same, with the messages shown.
OpShown(name, arg, result, shown) == [Op(name, arg, result) EXCEPT !.shown = shown]

EmptyOpts == [k \in {} |-> 0]

\* { ...a, ...b }
Merge(a, b) ==
    [k \in (DOMAIN a) \cup (DOMAIN b) |-> IF k \in DOMAIN b THEN b[k] ELSE a[k]]

Black == <<"#", "0", "0", "0", "0", "0", "0">>

White == <<"#", "f", "f", "f", "f", "f", "f">>

Red == <<"#", "F", "F", "0", "0", "a", "a">>

\* the string "red"
RedName == <<"r", "e", "d">>

Levels == {"L", "M", "Q", "H"}

\* A payload string: what it says (core), the length of its trimmed text
\* (len) and the number of leading/trailing whitespace characters (pad).
Content(core, len, pad) == [core |-> core, len |-> len, pad |-> pad]

\* content.length
Length(content) == content.len + content.pad

\* content.trim()
Trim(content) == [content EXCEPT !.pad = 0]

----------------------------------------------------------------------------
(* QRGenerator: options and validation *)

\* QRGenerator.defaultOptions, which App.init passes again as the options.
defaultOptions ==
    [width |-> 200, height |-> 200, colorDark |-> Black, colorLight |-> White,
     correctLevel |-> "M"]

\* options.correctLevel (undefined when the key is absent)
LevelOf(opts) ==
    IF "correctLevel" \in DOMAIN opts THEN opts.correctLevel ELSE "undefined"

\* Mutant: the limits of Low and High change places.
getMaxLengthSwapped(level) ==
    CASE level = "L" -> 1273
      [] level = "M" -> 2331
      [] level = "Q" -> 1663
      [] level = "H" -> 2953
      [] OTHER -> 2000

getMaxLengthForLevel(level) ==
    CASE level = "L" -> 2953
      [] level = "M" -> 2331
      [] level = "Q" -> 1663
      [] level = "H" -> 1273
      [] OTHER -> 2000

\* validateContent reads this.options (opts), never the customization of the
\* call.  tooLong: the length branch was taken and showUserError named limit.
validateContent(opts, content) ==
    LET maxLength == getMaxLengthForLevel(LevelOf(opts))
    IN  IF Length(content) = 0
        THEN [ok |-> FALSE, tooLong |-> FALSE, limit |-> 0]
        ELSE IF Trim(content).len = 0
        THEN [ok |-> FALSE, tooLong |-> FALSE, limit |-> 0]
        ELSE IF Trim(content).len > maxLength
        THEN [ok |-> FALSE, tooLong |-> TRUE, limit |-> maxLength]
        ELSE [ok |-> TRUE, tooLong |-> FALSE, limit |-> 0]

----------------------------------------------------------------------------
(* ErrorHandler and the messages of UIManager *)

\* this.maxHistorySize = 50
maxHistorySize == 50

\* errorInfo of handleError(error, context), seq standing for its timestamp
ErrorInfo(context, seq) == [context |-> context, seq |-> seq]

\* Mutant: the slice keeps the oldest entries.
addErrorToHistoryKeepOldest(history, errorInfo) ==
    LET h == <<errorInfo>> \o history
    IN  IF Len(h) > maxHistorySize THEN SubSeq(h, 2, maxHistorySize + 1) ELSE h

\* ErrorHandler.addToHistory(errorInfo): unshift, then slice(0, maxHistorySize)
addErrorToHistory(history, errorInfo) ==
    LET h == <<errorInfo>> \o history
    IN  IF Len(h) > maxHistorySize THEN SubSeq(h, 1, maxHistorySize) ELSE h

\* The history after handleError was called for each of contexts in turn,
\* n calls having been made before.
RECURSIVE Logged(_, _, _)
Logged(history, n, contexts) ==
    IF contexts = << >>
    THEN history
    ELSE Logged(addErrorToHistory(history, ErrorInfo(Head(contexts), n + 1)), n + 1,
                Tail(contexts))

\* handleError(error, context) for each of contexts in turn: the entry goes
\* to the history (the message it shows is listed in the step's record).
handleError(contexts) ==
    /\ errorHistory' = Logged(errorHistory, nErrors, contexts)
    /\ nErrors' = nErrors + Len(contexts)

\* The messages that handleError shows for contexts: one error message each.
ErrorMessages(contexts) == [i \in 1..Len(contexts) |-> "error"]

\* handleError(error, context) called on its own
HandleError(context) ==
    /\ nErrors < MaxLogged
    /\ handleError(<<context>>)
    /\ last' = OpShown("handleError", [context |-> context], "ok",
                       ErrorMessages(<<context>>))
    /\ UNCHANGED <<qrVars, histVars, nextId, currentOptions, presets, parserVars,
                   uiVars, debounceVars>>

\* clearErrorHistory()
ClearErrorHistory ==
    /\ errorHistory' = << >>
    /\ last' = Op("clearErrorHistory", Null, "ok")
    /\ UNCHANGED <<qrVars, histVars, nextId, currentOptions, presets, parserVars,
                   nErrors, uiVars, debounceVars>>

\* The model stops taking steps that report errors when the budget is
\* exceeded.
CanFail == nErrors <= MaxErrors

\* The context under which the caller of generate reports a failure in its
\* own catch block; none when generate is called directly.
CallerContext(via) ==
    CASE via = "submitForm"              -> <<"QR Code generation">>
      [] via = "generateFromCurrentType" -> <<"Geração de QR Code">>
      [] via = "loadFromHistory"         -> <<"Carregar do histórico">>
      [] via = "applyCustomization"      -> <<"Aplicar personalização">>
      [] OTHER                           -> << >>

\* The callers that show the loading overlay around their call.
ShowsLoading(via) ==
    via \in {"submitForm", "generateFromCurrentType", "loadFromHistory", "applyCustomization"}

----------------------------------------------------------------------------
(* QRGenerator: generate and the render check *)

\* What new QRCode(container, ...) may do: draw a canvas into the container,
\* draw nothing, or throw.
RenderOutcomes == {"canvas", "nothing", "throws"}

\* innerHTML after clear(), showLoadingState() and showErrorState()
WaitingState == [msg |-> "waiting", canvas |-> Null]

LoadingState == [msg |-> "loading", canvas |-> Null]

ErrorState == [msg |-> "error", canvas |-> Null]

\* container.querySelector('canvas') || container.querySelector('img')
HasArtifact(c) == c.canvas # Null

\* The record of a finished call.
QRRecord(id, call) == [id |-> id, content |-> call.content, options |-> call.options]

\* generate(content, customization) up to its await, with opts as this.options
\* at the time of the call, and its caller opName up to the same point.  A
\* failed validation and a throwing library end the call in the catch block,
\* which reports the error and throws it on to the caller's catch block;
\* otherwise the call waits for its render check.
GenerateCall(opName, arg, opts, content, customization) ==
    LET v == validateContent(opts, content)
        qrOptions == Merge(opts, customization)
        contexts == <<"QR Generation">> \o CallerContext(opName)
    IN  IF ~v.ok
        THEN /\ container' = ErrorState
             /\ UNCHANGED <<currentQRCode, pending>>
             /\ handleError(contexts)
             /\ loading' = IF ShowsLoading(opName) THEN FALSE ELSE loading
             /\ last' = [op |-> opName, arg |-> arg, limit |-> v.limit,
                         result |-> IF v.tooLong THEN "CapacityExceeded"
                                    ELSE "InvalidContent",
                         shown |-> (IF v.tooLong THEN <<"warning">> ELSE << >>)
                                   \o ErrorMessages(contexts),
                         downloads |-> 0]
        ELSE \E outcome \in RenderOutcomes :
             /\ currentQRCode' = Null
             /\ IF outcome = "throws"
                THEN /\ container' = ErrorState
                     /\ pending' = pending
                     /\ handleError(contexts)
                     /\ loading' = IF ShowsLoading(opName) THEN FALSE ELSE loading
                     /\ last' = OpShown(opName, arg, "RenderError", ErrorMessages(contexts))
                ELSE /\ container' =
                          [LoadingState EXCEPT
                               !.canvas = IF outcome = "canvas"
                                          THEN Some([content |-> content, options |-> qrOptions])
                                          ELSE Null]
                     /\ pending' = Append(pending, [content |-> content, options |-> qrOptions,
                                                   via |-> opName])
                     /\ UNCHANGED errVars
                     /\ loading' = IF ShowsLoading(opName) THEN TRUE ELSE loading
                     /\ last' = Op(opName, arg, "pending")

\* The model stops starting calls when ids or the wait queue run out, or
\* when the error budget is spent.
CanGenerate == nextId <= MaxId /\ Len(pending) < MaxPending /\ nErrors < MaxErrors

----------------------------------------------------------------------------
(* Utils.storage and HistoryManager *)

\* Utils.storage.get(key, defaultValue)
StorageGet(defaultValue) ==
    IF storageFault = "read" THEN defaultValue ELSE stored

\* Utils.storage.set(key, value): a failed write leaves the store as it was.
StorageSet(value) ==
    IF storageFault = "write"
    THEN UNCHANGED <<stored, storageFault>>
    ELSE stored' = value /\ storageFault' = "none"

\* Utils.storage.remove(key)
StorageRemove ==
    stored' = << >> /\ storageFault' = IF storageFault = "read" THEN "none" ELSE storageFault

\* Mutant: the stored value is taken as it is, without the fallback.
getHistoryStored == stored

\* getHistory(): Utils.storage.get(this.storageKey, [])
getHistory == StorageGet(<< >>)

\* The storage stops working: the stored value can no longer be read
\* (kind "read") or set fails from now on (kind "write").
StorageFault(kind) ==
    /\ storageFault # kind
    /\ storageFault' = kind
    /\ last' = Op("storageFault", [kind |-> kind], "ok")
    /\ UNCHANGED <<qrVars, stored, nextId, currentOptions, presets, parserVars,
                   errVars, uiVars, debounceVars>>

\* content.substring(0, 50) + (content.length > 50 ? '...' : '')
generatePreview(content) ==
    [core |-> content.core,
     shown |-> IF Length(content) > 50 THEN 50 ELSE Length(content),
     dots |-> Length(content) > 50]

HistoryItem(id, qrData) ==
    [id |-> id, content |-> qrData.content, options |-> qrData.options,
     preview |-> generatePreview(qrData.content)]

\* Mutant: the splice is left out.
UnshiftNoCap(history, item) == <<item>> \o history

\* Mutant: push instead of unshift.
PushAndCap(history, item) ==
    LET h == history \o <<item>>
    IN  IF Len(h) > MaxItems THEN SubSeq(h, 1, MaxItems) ELSE h

\* history.unshift(item); if (history.length > maxItems) history.splice(maxItems)
UnshiftAndCap(history, item) ==
    LET h == <<item>> \o history
    IN  IF Len(h) > MaxItems THEN SubSeq(h, 1, MaxItems) ELSE h

\* Mutant: the listener adds nothing.
addToHistorySkipped(id, qrData) == UNCHANGED <<stored, storageFault>>

\* addToHistory(qrData), the item taking the id given
addToHistory(id, qrData) ==
    StorageSet(UnshiftAndCap(getHistory, HistoryItem(id, qrData)))

\* Mutant: the filter keeps the entries it should drop.
FilterOutInverted(history, id) == SelectSeq(history, LAMBDA item : item.id = id)

\* history.filter(item => item.id !== id)
FilterOut(history, id) == SelectSeq(history, LAMBDA item : item.id # id)

\* loadFromHistory: history.find(h => h.id === id)
FindItem(history, id) == SelectSeq(history, LAMBDA item : item.id = id)

----------------------------------------------------------------------------
(* CustomizationManager *)

\* CustomizationManager.defaultOptions
defaultCustomization ==
    [size |-> 200, colorDark |-> Black, colorLight |-> White,
     errorCorrectionLevel |-> "M", margin |-> 4]

HexDigits ==
    {"0", "1", "2", "3", "4", "5", "6", "7", "8", "9",
     "a", "b", "c", "d", "e", "f", "A", "B", "C", "D", "E", "F"}

\* Mutant: the i flag is missing, so only capital digits pass.
isValidColorCapitalsOnly(color) ==
    /\ Len(color) = 7
    /\ color[1] = "#"
    /\ \A i \in 2..7 : color[i] \in {"0", "1", "2", "3", "4", "5", "6", "7", "8", "9",
                                      "A", "B", "C", "D", "E", "F"}

\* /^#[0-9A-F]{6}$/i.test(color)
isValidColor(color) ==
    /\ Len(color) = 7
    /\ color[1] = "#"
    /\ \A i \in 2..7 : color[i] \in HexDigits

\* Mutant: the error-correction level is not handed on.
mapOptionsWithoutLevel(o) ==
    [width |-> o.size, height |-> o.size, colorDark |-> o.colorDark,
     colorLight |-> o.colorLight, margin |-> o.margin]

mapOptionsToQRCode(o) ==
    [width |-> o.size, height |-> o.size, colorDark |-> o.colorDark,
     colorLight |-> o.colorLight, correctLevel |-> o.errorCorrectionLevel,
     margin |-> o.margin]

\* `color${type.charAt(0).toUpperCase() + type.slice(1)}`
ColorKey(type) == IF type = "dark" THEN "colorDark" ELSE "colorLight"

----------------------------------------------------------------------------
(* Operations of QRGenerator *)

\* generate(content, customization), called directly
Generate(content, customization) ==
    /\ CanGenerate
    /\ GenerateCall("generate", [content |-> content, options |-> customization],
                    options, content, customization)
    /\ UNCHANGED <<options, nGenerated, lastGenerated, stored, storageFault,
                   nextId, currentOptions, presets, parserVars, downloadListeners, previewPending,
                   debounceVars>>

\* initializeDownloadButtons(): setupDownloadListeners() adds a click listener
\* to each of the three buttons, on every call.
initializeDownloadButtons == downloadListeners' = downloadListeners + 1

\* The 100 ms timer of the oldest waiting call fires; the rest of generate, the
\* qr:generated listener of App and the caller's code after its await run in
\* the same turn.  applyCustomization goes on to draw its preview, which
\* either throws or waits for a check of its own.
RenderCheck ==
    /\ pending # << >>
    /\ pending' = Tail(pending)
    /\ LET call == Head(pending)
           record == QRRecord(nextId, call)
           caller == CallerContext(call.via)
       IN  IF HasArtifact(container)
           THEN /\ currentQRCode' = Some(record)
                /\ nGenerated' = nGenerated + 1
                /\ lastGenerated' = Some(record)
                /\ initializeDownloadButtons
                /\ addToHistory(nextId + 1, record)
                /\ nextId' = nextId + 2
                /\ UNCHANGED container
                /\ IF call.via = "applyCustomization"
                   THEN \E preview \in RenderOutcomes :
                        IF preview = "throws"
                        THEN /\ handleError(caller)
                             /\ loading' = FALSE
                             /\ UNCHANGED previewPending
                             /\ last' = OpShown("renderCheck", call, "generated",
                                                ErrorMessages(caller))
                        ELSE /\ previewPending' = previewPending + 1
                             /\ UNCHANGED <<errVars, loading>>
                             /\ last' = Op("renderCheck", call, "generated")
                   ELSE /\ UNCHANGED <<errVars, previewPending>>
                        /\ loading' = IF ShowsLoading(call.via) THEN FALSE ELSE loading
                        /\ last' = OpShown("renderCheck", call, "generated",
                                           IF ShowsLoading(call.via) THEN <<"success">>
                                           ELSE << >>)
           ELSE /\ container' = ErrorState
                /\ handleError(<<"QR Generation">> \o caller)
                /\ loading' = IF ShowsLoading(call.via) THEN FALSE ELSE loading
                /\ last' = OpShown("renderCheck", call, "RenderError",
                                   ErrorMessages(<<"QR Generation">> \o caller))
                /\ UNCHANGED <<currentQRCode, nGenerated, lastGenerated, stored,
                               storageFault, nextId, downloadListeners, previewPending>>
    /\ UNCHANGED <<options, currentOptions, presets, parserVars, debounceVars>>

\* App.generateQRCode(), the submit of #qr-form with content in #text-input:
\* an input that trims to nothing ends in a warning; otherwise
\* generate(content.trim()) runs under the loading overlay.
SubmitForm(content) ==
    /\ IF Trim(content).len = 0
       THEN /\ last' = OpShown("submitForm", [content |-> content], "EmptyInput",
                               <<"warning">>)
            /\ UNCHANGED <<currentQRCode, container, pending, errVars, loading>>
       ELSE /\ CanGenerate
            /\ GenerateCall("submitForm", [content |-> content], options,
                            Trim(content), EmptyOpts)
    /\ UNCHANGED <<options, nGenerated, lastGenerated, stored, storageFault,
                   nextId, currentOptions, presets, parserVars, downloadListeners,
                   previewPending, debounceVars>>

\* Mutant: a preview that was not drawn leaves the overlay as it is.
PreviewCheckKeepsLoading ==
    /\ previewPending > 0
    /\ previewPending' = previewPending - 1
    /\ \E drawn \in BOOLEAN :
          IF drawn
          THEN /\ UNCHANGED errVars
               /\ loading' = FALSE
               /\ last' = OpShown("previewCheck", Null, "ok", <<"success">>)
          ELSE /\ handleError(CallerContext("applyCustomization"))
               /\ loading' = loading
               /\ last' = OpShown("previewCheck", Null, "PreviewError",
                                  ErrorMessages(CallerContext("applyCustomization")))
    /\ UNCHANGED <<qrVars, histVars, nextId, currentOptions, presets, parserVars,
                   downloadListeners, debounceVars>>

\* The 100 ms timer of a preview fires: applyCustomization ends with a success
\* message when the preview was drawn and in its catch block when it was not.
PreviewCheck ==
    /\ previewPending > 0
    /\ previewPending' = previewPending - 1
    /\ loading' = FALSE
    /\ \E drawn \in BOOLEAN :
          IF drawn
          THEN /\ UNCHANGED errVars
               /\ last' = OpShown("previewCheck", Null, "ok", <<"success">>)
          ELSE /\ handleError(CallerContext("applyCustomization"))
               /\ last' = OpShown("previewCheck", Null, "PreviewError",
                                  ErrorMessages(CallerContext("applyCustomization")))
    /\ UNCHANGED <<qrVars, histVars, nextId, currentOptions, presets, parserVars,
                   downloadListeners, debounceVars>>

\* Mutant: the record is dropped only when the surface already showed the
\* waiting message.
ClearRecordOnSecondCall ==
    /\ container' = WaitingState
    /\ currentQRCode' = IF container = WaitingState THEN Null ELSE currentQRCode
    /\ last' = Op("clear", Null, "ok")
    /\ UNCHANGED <<options, pending, nGenerated, lastGenerated, stored, storageFault,
                   nextId, currentOptions, presets, parserVars, errVars, uiVars, debounceVars>>

\* clear()
Clear ==
    /\ container' = WaitingState
    /\ currentQRCode' = Null
    /\ last' = Op("clear", Null, "ok")
    /\ UNCHANGED <<options, pending, nGenerated, lastGenerated, stored, storageFault,
                   nextId, currentOptions, presets, parserVars, errVars, uiVars, debounceVars>>

\* updateOptions(newOptions)
UpdateOptions(newOptions) ==
    /\ options' = Merge(options, newOptions)
    /\ last' = Op("updateOptions", newOptions, "ok")
    /\ UNCHANGED <<currentQRCode, container, pending, nGenerated, lastGenerated,
                   stored, storageFault, nextId, currentOptions, presets, parserVars, errVars, uiVars, debounceVars>>

\* Mutant: the surface is cleared before the check for a current record.
RegenerateRejectedAfterClear(newOptions) ==
    /\ last' = Op("regenerate", newOptions, "NoActiveRecord")
    /\ container' = WaitingState
    /\ UNCHANGED <<currentQRCode, pending, errVars, loading>>

\* regenerate: if (!this.currentQRCode) throw new Error('No QR code to regenerate')
RegenerateRejected(newOptions) ==
    /\ last' = Op("regenerate", newOptions, "NoActiveRecord")
    /\ UNCHANGED <<currentQRCode, container, pending, errVars, loading>>

\* Mutant: the record's options are dropped.
updatedOptionsNewOnly(record, newOptions) == newOptions

\* regenerate: { ...this.currentQRCode.options, ...newOptions }
updatedOptions(record, newOptions) == Merge(record.options, newOptions)

\* regenerate(newOptions)
Regenerate(newOptions) ==
    /\ IF currentQRCode = Null
       THEN RegenerateRejected(newOptions)
       ELSE /\ CanGenerate
            /\ GenerateCall("regenerate", newOptions, options, currentQRCode[1].content,
                            updatedOptions(currentQRCode[1], newOptions))
    /\ UNCHANGED <<options, nGenerated, lastGenerated, stored, storageFault,
                   nextId, currentOptions, presets, parserVars, downloadListeners, previewPending,
                   debounceVars>>

----------------------------------------------------------------------------
(* Operations of HistoryManager *)

\* removeItem(id)
RemoveItem(id) ==
    /\ StorageSet(FilterOut(getHistory, id))
    /\ last' = Op("removeItem", id, "ok")
    /\ UNCHANGED <<qrVars, nextId, currentOptions, presets, parserVars, errVars, uiVars, debounceVars>>

\* clearHistory(): the user answers the confirm dialog
ClearHistory(confirmed) ==
    /\ IF confirmed
       THEN StorageRemove /\ last' = Op("clearHistory", Null, "ok")
       ELSE UNCHANGED histVars /\ last' = Op("clearHistory", Null, "cancelled")
    /\ UNCHANGED <<qrVars, nextId, currentOptions, presets, parserVars, errVars, uiVars, debounceVars>>

\* loadFromHistory(id)
LoadFromHistory(id) ==
    /\ LET found == FindItem(getHistory, id)
       IN  IF found = << >>
           THEN /\ last' = OpShown("loadFromHistory", [id |-> id], "NotFound", <<"error">>)
                /\ UNCHANGED <<currentQRCode, container, pending, errVars, loading>>
           ELSE /\ CanGenerate
                /\ GenerateCall("loadFromHistory", [id |-> id], options, found[1].content,
                                found[1].options)
    /\ UNCHANGED <<options, nGenerated, lastGenerated, stored, storageFault,
                   nextId, currentOptions, presets, parserVars, downloadListeners, previewPending,
                   debounceVars>>

\* The ids of the stored items, and one that no item has.
KnownIds == {getHistory[i].id : i \in DOMAIN getHistory} \cup {0}

----------------------------------------------------------------------------
(* Operations of CustomizationManager.  The preview container of the        *)
(* customization tab, which updatePreview redraws, is not part of the state.*)

\* updateOption(key, value): this.currentOptions[key] = value
updateOption(key, value) == currentOptions' = [currentOptions EXCEPT ![key] = value]

\* 'change' of #size-select and #size-input
SizeChange(size) ==
    /\ updateOption("size", size)
    /\ last' = Op("optionChange", [key |-> "size", value |-> size], "stored")
    /\ UNCHANGED <<qrVars, histVars, nextId, presets, parserVars, errVars, uiVars, debounceVars>>

\* 'change' of #error-level
ErrorLevelChange(level) ==
    /\ updateOption("errorCorrectionLevel", level)
    /\ last' = Op("optionChange", [key |-> "errorCorrectionLevel", value |-> level], "stored")
    /\ UNCHANGED <<qrVars, histVars, nextId, presets, parserVars, errVars, uiVars, debounceVars>>

\* 'change' of #margin-input
MarginChange(margin) ==
    /\ updateOption("margin", margin)
    /\ last' = Op("optionChange", [key |-> "margin", value |-> margin], "stored")
    /\ UNCHANGED <<qrVars, histVars, nextId, presets, parserVars, errVars, uiVars, debounceVars>>

\* 'change' of #color-dark-text and #color-light-text
ColorTextChange(type, color) ==
    /\ IF isValidColor(color)
       THEN /\ updateOption(ColorKey(type), color)
            /\ last' = Op("optionChange", [key |-> ColorKey(type), value |-> color], "stored")
       ELSE /\ UNCHANGED currentOptions
            /\ last' = Op("optionChange", [key |-> ColorKey(type), value |-> color],
                          "InvalidColor")
    /\ UNCHANGED <<qrVars, histVars, nextId, presets, parserVars, errVars, uiVars, debounceVars>>

\* debouncedUpdate(key, value): clearTimeout(this.debounceTimer), then a new
\* timer of 300 ms for updateOption(key, value).  The one timer serves every
\* key.
debouncedUpdate(key, value) == debounceTimer' = Some([key |-> key, value |-> value])

\* An 'input' event whose listener calls debouncedUpdate(key, value)
SliderInput(key, value) ==
    /\ debouncedUpdate(key, value)
    /\ lastDebounced' = Merge(lastDebounced, [k \in {key} |-> value])
    /\ last' = Op("debouncedUpdate", [key |-> key, value |-> value], "scheduled")
    /\ UNCHANGED <<qrVars, histVars, nextId, currentOptions, presets, parserVars,
                   errVars, uiVars>>

\* 'input' of #size-slider
SizeSliderInput(size) == SliderInput("size", size)

\* 'input' of #margin-slider
MarginSliderInput(margin) == SliderInput("margin", margin)

\* 'input' of #color-dark and #color-light
ColorPickerInput(type, color) == SliderInput(ColorKey(type), color)

\* The debounce timer fires 300 ms after the last debouncedUpdate.
DebounceFires ==
    /\ debounceTimer # Null
    /\ updateOption(debounceTimer[1].key, debounceTimer[1].value)
    /\ debounceTimer' = Null
    /\ last' = Op("debounceFires", debounceTimer[1], "stored")
    /\ UNCHANGED <<qrVars, histVars, nextId, presets, parserVars, errVars, uiVars,
                   lastDebounced>>

\* applyCustomization(): updateOptions(qrOptions), then regenerate(qrOptions)
ApplyCustomization ==
    /\ IF currentQRCode = Null
       THEN /\ last' = OpShown("applyCustomization", Null, "NoQRCode", <<"error">>)
            /\ UNCHANGED <<options, currentQRCode, container, pending, errVars, loading>>
       ELSE LET qrOptions == mapOptionsToQRCode(currentOptions)
            IN  /\ CanGenerate
                /\ options' = Merge(options, qrOptions)
                /\ GenerateCall("applyCustomization", qrOptions, options',
                                currentQRCode[1].content,
                                updatedOptions(currentQRCode[1], qrOptions))
    /\ UNCHANGED <<nGenerated, lastGenerated, stored, storageFault, nextId,
                   currentOptions, presets, parserVars, downloadListeners, previewPending,
                   debounceVars>>

\* Utils.storage.get('qr-presets', {})
PresetsGet == IF storageFault = "read" THEN EmptyOpts ELSE presets

\* Utils.storage.set('qr-presets', value)
PresetsSet(value) == presets' = IF storageFault = "write" THEN presets ELSE value

\* Mutant: only the size goes back to its default.
ResetToDefaultsSizeOnly ==
    /\ currentOptions' = [currentOptions EXCEPT !.size = defaultCustomization.size]
    /\ last' = Op("resetToDefaults", currentOptions, "ok")
    /\ UNCHANGED <<qrVars, histVars, nextId, presets, parserVars, errVars, uiVars, debounceVars>>

\* resetToDefaults(): this.currentOptions = { ...this.defaultOptions }
ResetToDefaults ==
    /\ currentOptions' = defaultCustomization
    /\ last' = Op("resetToDefaults", currentOptions, "ok")
    /\ UNCHANGED <<qrVars, histVars, nextId, presets, parserVars, errVars, uiVars, debounceVars>>

\* savePreset(): the user answers the prompt with name ("" when cancelled)
SavePreset(name) ==
    /\ IF name = ""
       THEN /\ UNCHANGED presets
            /\ last' = Op("savePreset", name, "cancelled")
       ELSE /\ PresetsSet(Merge(PresetsGet, [n \in {name} |-> currentOptions]))
            /\ last' = Op("savePreset", name, "ok")
    /\ UNCHANGED <<qrVars, histVars, nextId, currentOptions, parserVars, errVars, uiVars, debounceVars>>

\* loadPreset(name)
LoadPreset(name) ==
    /\ IF name \in DOMAIN PresetsGet
       THEN /\ currentOptions' = PresetsGet[name]
            /\ last' = Op("loadPreset", name, "ok")
       ELSE /\ UNCHANGED currentOptions
            /\ last' = Op("loadPreset", name, "NotFound")
    /\ UNCHANGED <<qrVars, histVars, nextId, presets, parserVars, errVars, uiVars, debounceVars>>

----------------------------------------------------------------------------
(* DownloadManager *)

Formats == {"png", "svg", "jpeg"}

\* How one export call ends: a file download and the download:success
\* notification, or the error that handleDownloadError reports.
Exported == [download |-> TRUE, shown |-> <<"success">>, errors |-> << >>]

ExportFailed(context) == [download |-> FALSE, shown |-> <<"error">>, errors |-> <<context>>]

\* downloadAsPNG(): encodes tells whether canvas.toBlob hands over a blob
downloadAsPNG(encodes) ==
    IF ~HasArtifact(container) THEN ExportFailed("Download PNG")
    ELSE IF ~encodes THEN ExportFailed("Download PNG")
    ELSE Exported

\* Mutant: the check for the canvas is left out.
downloadAsSVGRecordOnly ==
    IF currentQRCode = Null THEN ExportFailed("Download SVG")
    ELSE Exported

\* downloadAsSVG()
downloadAsSVG ==
    IF currentQRCode = Null THEN ExportFailed("Download SVG")
    ELSE IF ~HasArtifact(container) THEN ExportFailed("Download SVG")
    ELSE Exported

\* downloadAsJPEG()
downloadAsJPEG(encodes) ==
    IF ~HasArtifact(container) THEN ExportFailed("Download JPEG")
    ELSE IF ~encodes THEN ExportFailed("Download JPEG")
    ELSE Exported

downloadAs(format, encodes) ==
    CASE format = "png"  -> downloadAsPNG(encodes)
      [] format = "svg"  -> downloadAsSVG
      [] format = "jpeg" -> downloadAsJPEG(encodes)

\* One export of format, called on its own.
Export(format) ==
    \E encodes \in BOOLEAN :
        LET r == downloadAs(format, encodes)
        IN  /\ r.errors # << >> => CanFail
            /\ handleError(r.errors)
            /\ last' = [Op("export", [format |-> format],
                            IF r.download THEN "exported" ELSE "ExportError")
                            EXCEPT !.shown = r.shown,
                                   !.downloads = IF r.download THEN 1 ELSE 0]
            /\ UNCHANGED <<qrVars, histVars, nextId, currentOptions, presets, parserVars,
                           uiVars, debounceVars>>

\* The outcomes of the calls that the listeners of one click make, one after
\* the other, encodes[i] being the encoding of the i-th.
ClickOutcomes(format, encodes) == [i \in DOMAIN encodes |-> downloadAs(format, encodes[i])]

RECURSIVE Flatten(_)
Flatten(seqs) == IF seqs = << >> THEN << >> ELSE Head(seqs) \o Flatten(Tail(seqs))

\* A click on the download button of format: every listener registered on
\* the button runs its export.
Click(format) ==
    \E encodes \in [1..downloadListeners -> BOOLEAN] :
        LET rs == ClickOutcomes(format, encodes)
            errors == Flatten([i \in DOMAIN rs |-> rs[i].errors])
        IN  /\ errors # << >> => CanFail
            /\ handleError(errors)
            /\ last' = [Op("click", [format |-> format], "done")
                            EXCEPT !.shown = Flatten([i \in DOMAIN rs |-> rs[i].shown]),
                                   !.downloads = Cardinality({i \in DOMAIN rs : rs[i].download})]
            /\ UNCHANGED <<qrVars, histVars, nextId, currentOptions, presets, parserVars,
                           uiVars, debounceVars>>

----------------------------------------------------------------------------
(* ContentParser.  A string is the sequence of its characters.              *)

Whitespace == {" ", "\n"}

\* value.trim()
RECURSIVE StrTrim(_)
StrTrim(s) ==
    IF s = << >> THEN s
    ELSE IF Head(s) \in Whitespace THEN StrTrim(Tail(s))
    ELSE IF s[Len(s)] \in Whitespace THEN StrTrim(SubSeq(s, 1, Len(s) - 1))
    ELSE s

\* s.startsWith(prefix), the anchored match of a literal
StartsWith(s, prefix) ==
    Len(s) >= Len(prefix) /\ SubSeq(s, 1, Len(prefix)) = prefix

\* The values of the options of #wifi-security
WPA == <<"W", "P", "A">>

WEP == <<"W", "E", "P">>

Nopass == <<"n", "o", "p", "a", "s", "s">>

\* The fields of the forms as createAllForms() renders them.
BlankForm ==
    [text |-> << >>, url |-> << >>, email |-> << >>, subject |-> << >>, body |-> << >>,
     phone |-> << >>, ssid |-> << >>, password |-> << >>, security |-> WPA,
     hidden |-> FALSE, firstName |-> << >>, lastName |-> << >>,
     organization |-> << >>, vphone |-> << >>, vemail |-> << >>, vurl |-> << >>,
     address |-> << >>]

\* What a parse method gives: the payload it returns or the Error it throws.
Parsed(payload) == [ok |-> TRUE, payload |-> payload, error |-> ""]

Thrown(message) == [ok |-> FALSE, payload |-> << >>, error |-> message]

\* parseText()
parseText(fields) ==
    LET content == StrTrim(fields.text)
    IN  IF content = << >> THEN Thrown("Digite algum texto") ELSE Parsed(content)

Http == <<"h", "t", "t", "p", ":", "/", "/">>

Https == <<"h", "t", "t", "p", "s", ":", "/", "/">>

\* Mutant: the scheme is prepended to every url.
formatURLAlways(url) == Http \o url

\* formatURL(url): /^https?:\/\// decides
formatURL(url) ==
    IF StartsWith(url, Http) \/ StartsWith(url, Https) THEN url ELSE Http \o url

\* parseURL()
parseURL(fields) ==
    LET url == StrTrim(fields.url)
    IN  IF url = << >> THEN Thrown("Digite uma URL") ELSE Parsed(formatURL(url))

\* [^\s@]+ over the characters i..j of s
NoSpaceNoAt(s, i, j) ==
    i <= j /\ \A k \in i..j : s[k] \notin Whitespace \cup {"@"}

\* validateEmail(email): /^[^\s@]+@[^\s@]+\.[^\s@]+$/
validateEmail(email) ==
    \E at \in 1..Len(email), dot \in 1..Len(email) :
        /\ email[at] = "@"
        /\ email[dot] = "."
        /\ NoSpaceNoAt(email, 1, at - 1)
        /\ NoSpaceNoAt(email, at + 1, dot - 1)
        /\ NoSpaceNoAt(email, dot + 1, Len(email))

\* The characters that encodeURIComponent leaves as they are (those of them
\* that the inputs use).
Unreserved == {"a", "b", "c", "e", "h", "i", "r", "t", "x", "y", "H", ".", "-"}

\* The escapes of the other characters the inputs use.
Escaped(ch) ==
    CASE ch = " "  -> <<"%", "2", "0">>
      [] ch = "\n" -> <<"%", "0", "A">>
      [] ch = "&"  -> <<"%", "2", "6">>
      [] ch = "="  -> <<"%", "3", "D">>
      [] ch = "?"  -> <<"%", "3", "F">>
      [] ch = "@"  -> <<"%", "4", "0">>

\* encodeURIComponent(s)
RECURSIVE encodeURIComponent(_)
encodeURIComponent(s) ==
    IF s = << >> THEN << >>
    ELSE (IF Head(s) \in Unreserved THEN <<Head(s)>> ELSE Escaped(Head(s)))
         \o encodeURIComponent(Tail(s))

\* params.join('&')
RECURSIVE Join(_, _)
Join(params, sep) ==
    IF params = << >> THEN << >>
    ELSE IF Len(params) = 1 THEN params[1]
    ELSE params[1] \o sep \o Join(Tail(params), sep)

Mailto == <<"m", "a", "i", "l", "t", "o", ":">>

SubjectEq == <<"s", "u", "b", "j", "e", "c", "t", "=">>

BodyEq == <<"b", "o", "d", "y", "=">>

\* Mutant: the body is pushed before the subject.
formatEmailBodyFirst(email, subject, body) ==
    LET params == (IF body # << >> THEN <<BodyEq \o encodeURIComponent(body)>> ELSE << >>)
                  \o (IF subject # << >> THEN <<SubjectEq \o encodeURIComponent(subject)>>
                      ELSE << >>)
    IN  Mailto \o email \o (IF params # << >> THEN <<"?">> \o Join(params, <<"&">>) ELSE << >>)

\* formatEmail(email, subject = '', body = '')
formatEmail(email, subject, body) ==
    LET params == (IF subject # << >> THEN <<SubjectEq \o encodeURIComponent(subject)>>
                   ELSE << >>)
                  \o (IF body # << >> THEN <<BodyEq \o encodeURIComponent(body)>> ELSE << >>)
    IN  Mailto \o email \o (IF params # << >> THEN <<"?">> \o Join(params, <<"&">>) ELSE << >>)

\* parseEmail()
parseEmail(fields) ==
    LET email == StrTrim(fields.email)
        subject == StrTrim(fields.subject)
        body == StrTrim(fields.body)
    IN  IF email = << >> THEN Thrown("Digite um email")
        ELSE IF ~validateEmail(email) THEN Thrown("Email inválido")
        ELSE Parsed(formatEmail(email, subject, body))

Digits == {"0", "1", "2", "3", "4", "5", "6", "7", "8", "9"}

Tel == <<"t", "e", "l", ":">>

\* formatPhone(phone): phone.replace(/[^\d+]/g, '') keeps the digits and
\* every '+'
formatPhone(phone) ==
    Tel \o SelectSeq(phone, LAMBDA ch : ch \in Digits \cup {"+"})

\* parsePhone()
parsePhone(fields) ==
    LET phone == StrTrim(fields.phone)
    IN  IF phone = << >> THEN Thrown("Digite um número de telefone")
        ELSE Parsed(formatPhone(phone))

\* Mutant: the password field is left out when the password is empty.
formatWiFiOmitsEmptyPassword(ssid, password, security, hidden) ==
    <<"W", "I", "F", "I", ":", "T", ":">> \o security
    \o <<";", "S", ":">> \o ssid
    \o (IF password = << >> THEN << >> ELSE <<";", "P", ":">> \o password)
    \o <<";", "H", ":">>
    \o (IF hidden THEN <<"t", "r", "u", "e">> ELSE <<"f", "a", "l", "s", "e">>)
    \o <<";", ";">>

\* formatWiFi(ssid, password, security, hidden)
formatWiFi(ssid, password, security, hidden) ==
    <<"W", "I", "F", "I", ":", "T", ":">> \o security
    \o <<";", "S", ":">> \o ssid
    \o <<";", "P", ":">> \o password
    \o <<";", "H", ":">>
    \o (IF hidden THEN <<"t", "r", "u", "e">> ELSE <<"f", "a", "l", "s", "e">>)
    \o <<";", ";">>

\* parseWiFi(): value || '' and value || 'WPA' for the password and the
\* security, checked || false for the hidden flag
parseWiFi(fields) ==
    LET ssid == StrTrim(fields.ssid)
        security == IF fields.security = << >> THEN WPA ELSE fields.security
    IN  IF ssid = << >> THEN Thrown("Digite o nome da rede WiFi")
        ELSE Parsed(formatWiFi(ssid, fields.password, security, fields.hidden))

\* vcard += `${tag}${value}${tail}\n` when the condition holds
VCardLine(present, tag, value, tail) ==
    IF present THEN tag \o value \o tail \o <<"\n">> ELSE << >>

\* formatVCard(contactData)
formatVCard(c) ==
    <<"B", "E", "G", "I", "N", ":", "V", "C", "A", "R", "D", "\n">>
    \o <<"V", "E", "R", "S", "I", "O", "N", ":", "3", ".", "0", "\n">>
    \o VCardLine(c.firstName # << >> \/ c.lastName # << >>, <<"F", "N", ":">>,
                 c.firstName \o <<" ">> \o c.lastName, << >>)
    \o VCardLine(c.firstName # << >> \/ c.lastName # << >>, <<"N", ":">>,
                 c.lastName \o <<";">> \o c.firstName, <<";", ";", ";">>)
    \o VCardLine(c.organization # << >>, <<"O", "R", "G", ":">>, c.organization, << >>)
    \o VCardLine(c.phone # << >>, <<"T", "E", "L", ":">>, c.phone, << >>)
    \o VCardLine(c.email # << >>, <<"E", "M", "A", "I", "L", ":">>, c.email, << >>)
    \o VCardLine(c.url # << >>, <<"U", "R", "L", ":">>, c.url, << >>)
    \o VCardLine(c.address # << >>, <<"A", "D", "R", ":", ";", ";">>, c.address,
                 <<";", ";", ";", ";">>)
    \o <<"E", "N", "D", ":", "V", "C", "A", "R", "D">>

\* parseVCard()
parseVCard(fields) ==
    LET c == [firstName |-> StrTrim(fields.firstName),
              lastName |-> StrTrim(fields.lastName),
              organization |-> StrTrim(fields.organization),
              phone |-> StrTrim(fields.vphone),
              email |-> StrTrim(fields.vemail),
              url |-> StrTrim(fields.vurl),
              address |-> StrTrim(fields.address)]
    IN  IF c.firstName = << >> /\ c.lastName = << >>
        THEN Thrown("Digite pelo menos o nome ou sobrenome")
        ELSE Parsed(formatVCard(c))

\* parseContent(type)
parseContent(type, fields) ==
    CASE type = "text"  -> parseText(fields)
      [] type = "url"   -> parseURL(fields)
      [] type = "email" -> parseEmail(fields)
      [] type = "phone" -> parsePhone(fields)
      [] type = "wifi"  -> parseWiFi(fields)
      [] type = "vcard" -> parseVCard(fields)
      [] OTHER          -> Thrown("Tipo não suportado")

\* What the last submission was and what the parse made of it.
Submitted(r) ==
    [type |-> currentType, form |-> form, payload |-> r.payload, error |-> r.error]

\* Mutant: the event is dispatched although the parse threw.
GenerateFromCurrentTypeAnyway ==
    LET r == parseContent(currentType, form)
    IN  /\ CanGenerate
        /\ GenerateCall("generateFromCurrentType", Submitted(r), options,
                        Content(r.payload, Len(r.payload), 0), EmptyOpts)
        /\ UNCHANGED <<options, nGenerated, lastGenerated, stored, storageFault,
                       nextId, currentOptions, presets, parserVars, downloadListeners,
                       previewPending, debounceVars>>

\* generateFromCurrentType(): a parse that throws ends in handleError;
\* otherwise qr:generate is dispatched and App.handleQRGeneration calls
\* generate(content, {}).
GenerateFromCurrentType ==
    LET r == parseContent(currentType, form)
    IN  /\ IF ~r.ok
           THEN /\ CanFail
                /\ handleError(<<"Gerar QR Code">>)
                /\ last' = OpShown("generateFromCurrentType", Submitted(r), "ParseError",
                                   ErrorMessages(<<"Gerar QR Code">>))
                /\ UNCHANGED <<currentQRCode, container, pending, loading>>
           ELSE /\ CanGenerate
                /\ GenerateCall("generateFromCurrentType", Submitted(r), options,
                                Content(r.payload, Len(r.payload), 0), EmptyOpts)
        /\ UNCHANGED <<options, nGenerated, lastGenerated, stored, storageFault,
                       nextId, currentOptions, presets, parserVars, downloadListeners,
                       previewPending, debounceVars>>

\* The user picks a content type (showContentType) and fills in its form.
FillForm(type, fields) ==
    /\ currentType' = type
    /\ form' = fields
    /\ last' = Op("fillForm", [type |-> type, form |-> fields], "ok")
    /\ UNCHANGED <<qrVars, histVars, nextId, currentOptions, presets, errVars, uiVars,
                   debounceVars>>

----------------------------------------------------------------------------
(* Specifications *)

\* The service, the history and the customization after App.init().
InitService ==
    /\ options = defaultOptions
    /\ currentQRCode = Null
    /\ container = WaitingState
    /\ pending = << >>
    /\ nGenerated = 0
    /\ lastGenerated = Null
    /\ stored = << >>
    /\ storageFault = "none"
    /\ nextId = 1
    /\ currentOptions = defaultCustomization
    /\ presets = EmptyOpts
    /\ errorHistory = << >>
    /\ nErrors = 0
    /\ loading = FALSE
    /\ downloadListeners = 0
    /\ previewPending = 0
    /\ debounceTimer = Null
    /\ lastDebounced = EmptyOpts
    /\ last = Op("init", Null, "ok")

\* The text form is shown first, with empty fields.
Init ==
    /\ InitService
    /\ currentType = "text"
    /\ form = BlankForm

\* Payloads: a short one, one with a trailing blank, one of blanks only.
Contents == {Content("a", 5, 0), Content("b", 3, 1), Content("", 0, 2)}

GenOptions == {EmptyOpts, [correctLevel |-> "H"]}

RegenOptions == {EmptyOpts, [colorDark |-> Red]}

UpdOptions == {[margin |-> 0]}

\* The service, driven through its contract, with the history it feeds
\* (remove and clear are exercised in SpecHistory).
Next ==
    \/ \E c \in Contents, o \in GenOptions : Generate(c, o)
    \/ RenderCheck
    \/ Clear
    \/ \E o \in RegenOptions : Regenerate(o)
    \/ \E o \in UpdOptions : UpdateOptions(o)
    \/ \E id \in KnownIds : LoadFromHistory(id)

Spec == Init /\ [][Next]_vars

----------------------------------------------------------------------------
(* The history alone, driven through append, remove and clear. *)

\* addToHistory(qrData) called on its own
AddToHistory(qrData) ==
    /\ nextId <= MaxAppends
    /\ addToHistory(nextId, qrData)
    /\ nextId' = nextId + 1
    /\ last' = Op("addToHistory", qrData, "ok")
    /\ UNCHANGED <<qrVars, currentOptions, presets, parserVars, errVars, uiVars, debounceVars>>

HistoryInputs ==
    {[id |-> 0, content |-> Content("a", 5, 0), options |-> defaultOptions],
     [id |-> 0, content |-> Content("b", 60, 1), options |-> Merge(defaultOptions, [correctLevel |-> "H"])]}

NextHistory ==
    \/ \E q \in HistoryInputs : AddToHistory(q)
    \/ \E id \in KnownIds : RemoveItem(id)
    \/ \E b \in BOOLEAN : ClearHistory(b)

SpecHistory == Init /\ [][NextHistory]_vars

----------------------------------------------------------------------------
(* The capacity check at the limits of the four levels: one call at a time,  *)
(* until the first record exists.                                           *)

CapacityLengths == {1273, 1274, 1663, 1664, 2331, 2332, 2953, 2954, 3000}

CapacityContents ==
    {Content("a", n, 0) : n \in CapacityLengths} \cup {Content("a", 2331, 1)}

LevelOptions == {[correctLevel |-> l] : l \in Levels}

NextCapacity ==
    \/ /\ pending = << >>
       /\ nextId = 1
       /\ \E c \in CapacityContents, o \in LevelOptions \cup {EmptyOpts} : Generate(c, o)
    \/ RenderCheck
    \/ \E o \in LevelOptions : UpdateOptions(o)

SpecCapacity == Init /\ [][NextCapacity]_vars

----------------------------------------------------------------------------
(* The customization tab over a service with one payload.                   *)

SizeInputs == {256}

LevelInputs == {"H"}

MarginInputs == {0}

ColorTypes == {"dark", "light"}

NextCustom ==
    \/ /\ pending = << >>
       /\ \E c \in {Content("a", 5, 0), Content("b", 1274, 0)} : Generate(c, EmptyOpts)
    \/ RenderCheck
    \/ \E n \in SizeInputs : SizeChange(n)
    \/ \E l \in LevelInputs : ErrorLevelChange(l)
    \/ \E m \in MarginInputs : MarginChange(m)
    \/ \E t \in ColorTypes : ColorTextChange(t, Red)
    \/ ApplyCustomization
    \/ PreviewCheck

SpecCustom == Init /\ [][NextCustom]_vars

----------------------------------------------------------------------------
(* The color text fields alone, fed strings around a valid color.           *)

ColorAlphabet == {"#", "0", "F", "g"}

\* Red with one character replaced, cut short, or followed by more digits;
\* the word "red"; the empty string.
ColorInputs ==
    {[Red EXCEPT ![i] = ch] : i \in 1..7, ch \in ColorAlphabet}
    \cup {SubSeq(Red, 1, n) : n \in 0..6}
    \cup {Red \o [j \in 1..k |-> "0"] : k \in 1..(MaxColorLen - 7)}
    \cup {RedName}

NextColor == \E t \in ColorTypes, c \in ColorInputs : ColorTextChange(t, c)

SpecColor == Init /\ [][NextColor]_vars

----------------------------------------------------------------------------
(* The customization options alone: sets, presets and reset.                *)

PresetNames == {"", "p", "q"}

ResetSizes == {256}

ResetLevels == {"L", "H"}

NextReset ==
    \/ \E n \in ResetSizes : SizeChange(n)
    \/ \E l \in ResetLevels : ErrorLevelChange(l)
    \/ \E m \in MarginInputs : MarginChange(m)
    \/ \E t \in ColorTypes : ColorTextChange(t, Red)
    \/ SavePreset("") \/ SavePreset("p")
    \/ \E name \in PresetNames : LoadPreset(name)
    \/ ResetToDefaults

SpecReset == Init /\ [][NextReset]_vars

----------------------------------------------------------------------------
(* The content forms, filled with strings around the cases of each kind and *)
(* submitted until the first record exists.                                 *)

\* The strings over alphabet of length at most n.
Strings(alphabet, n) == UNION {[1..k -> alphabet] : k \in 0..n}

TextForms ==
    {[BlankForm EXCEPT !.text = s] :
        s \in {<< >>, <<" ">>, <<"h", "i">>, <<" ", "h", "i", "\n">>}}

UrlForms ==
    {[BlankForm EXCEPT !.url = p \o r] :
        p \in {<< >>, <<" ">>, Http, Https, <<"h", "t", "t", "p", ":", "/">>,
               <<"H", "T", "T", "P", ":", "/", "/">>, <<"f", "t", "p", ":", "/", "/">>},
        r \in {<< >>, <<"x">>, <<"x", ".", "i", "o", " ">>, Http \o <<"x">>}}

\* "a@b.com"
ExampleAddress == <<"a", "@", "b", ".", "c", "o", "m">>

\* "Hi there"
ExampleSubject == <<"H", "i", " ", "t", "h", "e", "r", "e">>

EmailAlphabet == {"a", "@", "."}

\* Addresses with blanks around and inside.
SpacedAddresses ==
    {<<" ">>, <<" ", "a", "@", "a", ".", "a", " ">>, <<"a", " ", "@", "a", ".", "a">>}

\* Every short address without subject and body, and the addresses that pass
\* with the subjects and bodies.
EmailForms ==
    {[BlankForm EXCEPT !.email = a] :
        a \in Strings(EmailAlphabet, MaxEmailLen) \cup SpacedAddresses}
    \cup {[BlankForm EXCEPT !.email = a, !.subject = s, !.body = b] :
             a \in {ExampleAddress, <<" ", "a", "@", "a", ".", "a", " ">>},
             s \in {<< >>, <<" ">>, ExampleSubject, <<"a", "&", "b">>},
             b \in {<< >>, <<"x", " ", "y">>, <<"a", "=", "b", "?">>}}

\* "+55 (11) 99999-9999"
ExamplePhone ==
    <<"+", "5", "5", " ", "(", "1", "1", ")", " ", "9", "9", "9", "9", "9", "-",
      "9", "9", "9", "9">>

PhoneAlphabet == {"+", "5", " ", "(", "a"}

PhoneForms ==
    {[BlankForm EXCEPT !.phone = s] :
        s \in Strings(PhoneAlphabet, MaxPhoneLen) \cup {ExamplePhone}}

\* The security is << >> when the select gives no value.
WiFiForms ==
    {[BlankForm EXCEPT !.ssid = s, !.password = p, !.security = t, !.hidden = h] :
        s \in {<< >>, <<" ">>, <<"n">>, <<" ", "n", " ">>, <<"a", ";", "b">>},
        p \in {<< >>, <<"p">>, <<" ", "p", " ">>},
        t \in {<< >>, WPA, WEP, Nopass},
        h \in BOOLEAN}

\* An address of two lines, the second of which reads as a TEL line.
TwoLineAddress == <<"x", "\n", "T", "E", "L", ":", "1">>

VCardForms ==
    {[BlankForm EXCEPT !.firstName = f, !.lastName = l, !.organization = o,
                       !.vphone = p, !.vemail = e, !.vurl = u, !.address = a] :
        f \in {<< >>, <<" ">>, <<"v">>},
        l \in {<< >>, <<"w">>},
        o \in {<< >>, <<"v">>},
        p \in {<< >>, <<"5">>},
        e \in {<< >>, <<"v">>},
        u \in {<< >>, <<"v">>},
        a \in {<< >>, <<"v">>, <<"x", "\n", "y">>, TwoLineAddress}}

\* What the user may submit: a content type and the fields of its form.
Submission(type, forms) == {[type |-> type, form |-> f] : f \in forms}

FormatInputs ==
    Submission("text", TextForms) \cup Submission("url", UrlForms)
    \cup Submission("email", EmailForms) \cup Submission("phone", PhoneForms)
    \cup Submission("wifi", WiFiForms) \cup Submission("vcard", VCardForms)
    \cup Submission("sms", {BlankForm})

\* The form as the user has filled it in before the first submission.
InitFormat ==
    /\ InitService
    /\ \E sub \in FormatInputs : currentType = sub.type /\ form = sub.form

NextFormat ==
    \/ /\ pending = << >>
       /\ nextId = 1
       /\ GenerateFromCurrentType
    \/ RenderCheck

SpecFormat == InitFormat /\ [][NextFormat]_vars

----------------------------------------------------------------------------
(* The content forms beside the service: submissions that fail to parse,    *)
(* one per kind, and two that parse.                                        *)

FailingInputs ==
    {[type |-> "text", form |-> BlankForm],
     [type |-> "url", form |-> [BlankForm EXCEPT !.url = <<" ">>]],
     [type |-> "email", form |-> [BlankForm EXCEPT !.subject = ExampleSubject]],
     [type |-> "email", form |-> [BlankForm EXCEPT !.email = <<"a", "@", "b">>]],
     [type |-> "phone", form |-> BlankForm],
     [type |-> "wifi", form |-> [BlankForm EXCEPT !.password = <<"p">>]],
     [type |-> "vcard", form |-> [BlankForm EXCEPT !.organization = <<"v">>]],
     [type |-> "sms", form |-> [BlankForm EXCEPT !.text = <<"h", "i">>]]}

ParsingInputs ==
    {[type |-> "text", form |-> [BlankForm EXCEPT !.text = <<"h", "i">>]],
     [type |-> "phone", form |-> [BlankForm EXCEPT !.phone = <<"+", "5">>]]}

NextParser ==
    \/ \E sub \in FailingInputs \cup ParsingInputs : FillForm(sub.type, sub.form)
    \/ GenerateFromCurrentType
    \/ RenderCheck
    \/ Clear

SpecParser == Init /\ [][NextParser]_vars

----------------------------------------------------------------------------
(* The application: generation started from the main form, from the content *)
(* forms, from the history and from the customization tab.                  *)

\* The text form of the content tab holds "hi".
InitApp ==
    /\ InitService
    /\ currentType = "text"
    /\ form = [BlankForm EXCEPT !.text = <<"h", "i">>]

\* What is typed into #text-input: a short text, blanks, a text over the
\* limit of level M.
FormContents == {Content(<<"a">>, 5, 1), Content(<< >>, 0, 2), Content(<<"c">>, 2332, 0)}

NextApp ==
    \/ \E c \in FormContents : SubmitForm(c)
    \/ GenerateFromCurrentType
    \/ \E id \in KnownIds : LoadFromHistory(id)
    \/ ApplyCustomization
    \/ RenderCheck
    \/ PreviewCheck

SpecApp == InitApp /\ [][NextApp]_vars

\* The same with timers that fire: a render check or a preview check that is
\* due is made.
SpecAppFair == SpecApp /\ WF_vars(RenderCheck) /\ WF_vars(PreviewCheck)

----------------------------------------------------------------------------
(* The ErrorHandler alone, driven through handleError and clearErrorHistory. *)

NextErrors ==
    \/ HandleError("Unknown")
    \/ ClearErrorHistory

SpecErrors == Init /\ [][NextErrors]_vars

----------------------------------------------------------------------------
(* The sliders and color pickers, whose changes are debounced.              *)

SliderSizes == {256, 300}

NextDebounce ==
    \/ \E n \in SliderSizes : SizeSliderInput(n)
    \/ \E m \in MarginInputs : MarginSliderInput(m)
    \/ \E t \in ColorTypes : ColorPickerInput(t, Red)
    \/ DebounceFires

SpecDebounce == Init /\ [][NextDebounce]_vars

\* The same beside reset and presets.
NextDebounceReset ==
    \/ \E n \in SizeInputs : SizeSliderInput(n)
    \/ ColorPickerInput("dark", Red)
    \/ DebounceFires
    \/ \E n \in ResetSizes : SizeChange(n)
    \/ \E m \in MarginInputs : MarginChange(m)
    \/ SavePreset("p")
    \/ \E name \in {"p", "q"} : LoadPreset(name)
    \/ ResetToDefaults

SpecDebounceReset == Init /\ [][NextDebounceReset]_vars

----------------------------------------------------------------------------
(* The service and the history over a storage that fails.                   *)

NextFault ==
    \/ Generate(Content("a", 5, 0), EmptyOpts)
    \/ RenderCheck
    \/ \E q \in HistoryInputs : AddToHistory(q)
    \/ \E b \in BOOLEAN : ClearHistory(b)
    \/ \E kind \in {"read", "write"} : StorageFault(kind)

SpecFault == Init /\ [][NextFault]_vars

----------------------------------------------------------------------------
(* The download buttons beside the service.                                 *)

DownloadContents == {Content("a", 5, 0), Content("", 0, 2)}

NextDownload ==
    \/ \E c \in DownloadContents : Generate(c, EmptyOpts)
    \/ RenderCheck
    \/ Clear
    \/ \E f \in Formats : Export(f)
    \/ \E f \in Formats : Click(f)

SpecDownload == Init /\ [][NextDownload]_vars

----------------------------------------------------------------------------
(* Claims *)

Min(a, b) == IF a < b THEN a ELSE b

\* The log after an append to log: the item's data at the head, then the
\* entries of log in their order, the oldest dropped when the cap is passed.
IsAppendOf(newLog, log, id, qrData) ==
    /\ newLog # << >>
    /\ newLog[1].id = id
    /\ newLog[1].content = qrData.content
    /\ newLog[1].options = qrData.options
    /\ Tail(newLog) = SubSeq(log, 1, Min(Len(log), MaxItems - 1))

\* C1: after any sequence of append, remove and clear the stored history log
\* never holds more than maxItems entries.
C1_HistoryNeverExceedsCap == Len(getHistory) <= MaxItems

\* C1 witness: the log is full after more appends than the cap allows.
C1_Witness ==
    /\ last.op = "addToHistory"
    /\ Len(stored) = MaxItems
    /\ nextId = MaxAppends + 1

\* C2: append puts the new entry at the head and keeps the earlier entries
\* behind it in their order, dropping exactly the oldest at the tail when the
\* cap is passed; the log is always in reverse insertion order (ids grow with
\* insertion, so they fall along the log).
C2_AppendAtHeadEvictsOldest ==
    [][ /\ (last'.op = "addToHistory") =>
              IsAppendOf(stored', stored, nextId, last'.arg)
        /\ \A i \in 1..(Len(stored') - 1) : stored'[i].id > stored'[i + 1].id
      ]_vars

\* C2 witness: cap+1 appends in a row leave the last cap items, newest first,
\* and the first one is gone.
C2_Witness ==
    /\ last.op = "addToHistory"
    /\ Len(stored) = MaxItems
    /\ \A i \in 1..MaxItems : stored[i].id = MaxItems + 2 - i

\* The limit the claims give for each error-correction level.
CapacityLimit(level) ==
    IF level = "L" THEN 2953
    ELSE IF level = "M" THEN 2331
    ELSE IF level = "Q" THEN 1663
    ELSE 1273

\* C3 (as claimed): generate rejects the payload exactly when its length
\* (read in the claim's favour as the length of the trimmed payload, which is
\* what the code measures) exceeds the limit of the level render uses, the
\* level of the call's options merged over the stored options, and the
\* failure names that limit.
C3_RejectsByRenderLevel ==
    [][ (last'.op = "generate") =>
            LET limit == CapacityLimit(Merge(options, last'.arg.options).correctLevel)
            IN  /\ (last'.result = "CapacityExceeded") <=>
                       (Trim(last'.arg.content).len > limit)
                /\ (last'.result = "CapacityExceeded") => (last'.limit = limit)
      ]_vars

\* C4 (as claimed), the level read as the stored level of the service: 3000
\* characters fail under High citing 1273 and pass under Low.
C4_Original ==
    [][ (last'.op = "generate" /\ Length(last'.arg.content) = 3000
            /\ last'.arg.options = EmptyOpts) =>
            /\ (options.correctLevel = "H") =>
                   (last'.result = "CapacityExceeded" /\ last'.limit = 1273)
            /\ (options.correctLevel = "L") => (last'.result # "CapacityExceeded")
      ]_vars

\* C4 (amended): with the stored level High, 3000 characters fail citing 1273;
\* with the stored level Low they fail too, citing 2953; 2953 characters fail
\* under High citing 1273 and pass the capacity check under Low.
C4_Capacity3000 ==
    [][ (last'.op = "generate" /\ last'.arg.options = EmptyOpts) =>
            /\ (Length(last'.arg.content) = 3000 /\ options.correctLevel = "H") =>
                   (last'.result = "CapacityExceeded" /\ last'.limit = 1273)
            /\ (Length(last'.arg.content) = 3000 /\ options.correctLevel = "L") =>
                   (last'.result = "CapacityExceeded" /\ last'.limit = 2953)
            /\ (Length(last'.arg.content) = 2953 /\ options.correctLevel = "H") =>
                   (last'.result = "CapacityExceeded" /\ last'.limit = 1273)
            /\ (Length(last'.arg.content) = 2953 /\ options.correctLevel = "L") =>
                   (last'.result \in {"pending", "RenderError"})
      ]_vars

\* C4 witness: 3000 characters were rejected under the stored level Low.
C4_Witness ==
    /\ last.op = "generate"
    /\ Length(last.arg.content) = 3000
    /\ options.correctLevel = "L"
    /\ last.result = "CapacityExceeded"
    /\ last.limit = 2953

\* The operations that run generate, and the results that end a call in failure.
GenerateOps == {"generate", "regenerate", "loadFromHistory", "applyCustomization"}

Failures == {"CapacityExceeded", "InvalidContent", "RenderError", "NoActiveRecord"}

\* C5: a generate call that succeeds emits exactly one qr:generated carrying
\* the new record, and exactly one entry with the record's content and options
\* is appended at the head of the history; a call that fails (at the call or at
\* its render check) emits nothing and leaves the history unchanged.
C5_OneEventOneEntryPerSuccess ==
    [][ /\ (last'.result = "generated") =>
              /\ last'.op = "renderCheck"
              /\ nGenerated' = nGenerated + 1
              /\ currentQRCode' # Null
              /\ lastGenerated' = currentQRCode'
              /\ currentQRCode'[1].content = last'.arg.content
              /\ currentQRCode'[1].options = last'.arg.options
              /\ IsAppendOf(stored', stored, nextId + 1, currentQRCode'[1])
        /\ (last'.result # "generated") => (nGenerated' = nGenerated)
        /\ (last'.op \in GenerateOps \cup {"renderCheck"} /\ last'.result \in Failures) =>
              (nGenerated' = nGenerated /\ lastGenerated' = lastGenerated /\ stored' = stored)
      ]_vars

\* C5 witness: the second success found an entry in the history and went in
\* front of it.
C5_Witness ==
    /\ last.result = "generated"
    /\ nGenerated = 2
    /\ Len(stored) = 2
    /\ stored[1].content = currentQRCode[1].content

\* C6 (as claimed): a render check finds its call alone in flight; a call with
\* a later call in flight behind it never sets the current record and never
\* emits qr:generated.
C6_SupersededNeverCompletes ==
    [][ (last'.op = "renderCheck") =>
            /\ Len(pending) = 1
            /\ (Len(pending) > 1) =>
                   /\ last'.result # "generated"
                   /\ currentQRCode' = currentQRCode
                   /\ nGenerated' = nGenerated
      ]_vars

\* C7: regenerate with no current record fails with the no-active-record error,
\* leaves the current record (none), the surface and the history unchanged and
\* emits nothing.
C7_RegenerateWithoutRecord ==
    [][ (last'.op = "regenerate" /\ currentQRCode = Null) =>
            /\ last'.result = "NoActiveRecord"
            /\ currentQRCode' = Null
            /\ container' = container
            /\ stored' = stored
            /\ pending' = pending
            /\ nGenerated' = nGenerated
      ]_vars

\* C7 witness: regenerate was refused after a record had existed and was
\* cleared, and while the surface showed an error.
C7_Witness ==
    /\ last.op = "regenerate"
    /\ last.result = "NoActiveRecord"
    /\ nGenerated > 0
    /\ container = ErrorState

\* A regenerate call that waits for its render check carries the content of
\* the current record.
RegenerateKeepsContent ==
    (last'.op = "regenerate" /\ last'.result = "pending") =>
        /\ pending'[Len(pending')].via = "regenerate"
        /\ pending'[Len(pending')].content = currentQRCode[1].content

\* A regenerate call whose render check succeeds becomes the current record
\* with the content and options it carried.
RegenerateCompletes ==
    (last'.op = "renderCheck" /\ last'.result = "generated"
        /\ last'.arg.via = "regenerate") =>
        /\ currentQRCode'[1].content = last'.arg.content
        /\ currentQRCode'[1].options = last'.arg.options

\* C8 (as claimed): after a successful regenerate the record has the content of
\* the record before and the options of that record overlaid with newOptions.
C8_Original ==
    [][ /\ RegenerateKeepsContent
        /\ RegenerateCompletes
        /\ (last'.op = "regenerate" /\ last'.result = "pending") =>
               (pending'[Len(pending')].options =
                    Merge(currentQRCode[1].options, last'.arg))
      ]_vars

\* C8 (amended): the options are the stored options of the service, overlaid
\* with the options of the record before, overlaid with newOptions.
C8_RegenerateMergesOptions ==
    [][ /\ RegenerateKeepsContent
        /\ RegenerateCompletes
        /\ (last'.op = "regenerate" /\ last'.result = "pending") =>
               (pending'[Len(pending')].options =
                    Merge(options, Merge(currentQRCode[1].options, last'.arg)))
      ]_vars

\* C8 witness: a regenerate with a new dark color succeeded on a record made
\* with level High (the stored level is Medium), and the record kept High.
C8_Witness ==
    /\ last.op = "renderCheck"
    /\ last.result = "generated"
    /\ last.arg.via = "regenerate"
    /\ currentQRCode # Null
    /\ currentQRCode[1].options.colorDark = Red
    /\ currentQRCode[1].options.correctLevel = "H"
    /\ options.correctLevel = "M"

\* C9 (as claimed): a change of a customization option made while a QR is
\* active starts a regenerate of the main QR code carrying the changed option.
C9_Original ==
    [][ (last'.op = "optionChange" /\ last'.result = "stored" /\ currentQRCode # Null) =>
            /\ Len(pending') = Len(pending) + 1
            /\ pending'[Len(pending')].content = currentQRCode[1].content
      ]_vars

\* C9 (amended): a change of a customization option is stored in
\* currentOptions and leaves the main QR code alone (record, surface, calls in
\* flight, stored options); applyCustomization on an active QR stores the
\* mapped options in the service and regenerates the record's content with
\* them, and the record of that call carries them when its check succeeds.
C9_ChangeStoredApplyRegenerates ==
    [][ /\ (last'.op = "optionChange") =>
              /\ UNCHANGED <<currentQRCode, container, pending, options, nGenerated>>
              /\ (last'.result = "stored") =>
                     (currentOptions'[last'.arg.key] = last'.arg.value)
        /\ (last'.op = "applyCustomization" /\ currentQRCode # Null
                /\ last'.result = "pending") =>
              LET call == pending'[Len(pending')]
              IN  /\ call.content = currentQRCode[1].content
                  /\ call.options.width = currentOptions.size
                  /\ call.options.height = currentOptions.size
                  /\ call.options.colorDark = currentOptions.colorDark
                  /\ call.options.colorLight = currentOptions.colorLight
                  /\ call.options.correctLevel = currentOptions.errorCorrectionLevel
                  /\ call.options.margin = currentOptions.margin
                  /\ options'.correctLevel = currentOptions.errorCorrectionLevel
        /\ (last'.op = "renderCheck" /\ last'.result = "generated"
                /\ last'.arg.via = "applyCustomization") =>
              (currentQRCode'[1].options = last'.arg.options)
      ]_vars

\* C9 witness: level High and a new dark color were set while a QR was active,
\* then applied, and the record of the apply shows them.
C9_Witness ==
    /\ last.op = "renderCheck"
    /\ last.result = "generated"
    /\ last.arg.via = "applyCustomization"
    /\ currentOptions.errorCorrectionLevel = "H"
    /\ currentOptions.colorDark = Red
    /\ currentQRCode[1].options.correctLevel = "H"
    /\ currentQRCode[1].options.colorDark = Red

LowerCase(ch) ==
    CASE ch = "A" -> "a" [] ch = "B" -> "b" [] ch = "C" -> "c"
      [] ch = "D" -> "d" [] ch = "E" -> "e" [] ch = "F" -> "f"
      [] OTHER -> ch

\* '#' followed by exactly six hexadecimal digits, in either case.
IsRRGGBB(color) ==
    /\ Len(color) = 7
    /\ Head(color) = "#"
    /\ \A i \in 1..6 :
           LowerCase(Tail(color)[i]) \in
               {"0", "1", "2", "3", "4", "5", "6", "7", "8", "9",
                "a", "b", "c", "d", "e", "f"}

\* C10: a value given to a color text field that is not #RRGGBB is rejected
\* with the invalid-color error and the stored colors stay as they were; a
\* #RRGGBB value is stored under its key and the other options stay.
C10_ColorValidated ==
    [][ (last'.op = "optionChange" /\ last'.arg.key \in {"colorDark", "colorLight"}) =>
            IF IsRRGGBB(last'.arg.value)
            THEN /\ last'.result = "stored"
                 /\ currentOptions' = [currentOptions EXCEPT ![last'.arg.key] = last'.arg.value]
            ELSE /\ last'.result = "InvalidColor"
                 /\ currentOptions' = currentOptions
      ]_vars

\* C10 witness: "red" was rejected and the dark color stored before is kept.
C10_Witness ==
    /\ last.op = "optionChange"
    /\ last.arg = [key |-> "colorDark", value |-> RedName]
    /\ last.result = "InvalidColor"
    /\ currentOptions.colorDark = Red

\* C11: after reset, from any customization state reached by sets and preset
\* loads, the render options are exactly the documented defaults: width =
\* height = 200, colorDark #000000, colorLight #ffffff, level Medium, margin 4.
C11_ResetGivesDefaults ==
    [][last'.op = "resetToDefaults" =>
          mapOptionsToQRCode(currentOptions') =
              [width |-> 200, height |-> 200,
               colorDark |-> <<"#", "0", "0", "0", "0", "0", "0">>,
               colorLight |-> <<"#", "f", "f", "f", "f", "f", "f">>,
               correctLevel |-> "M", margin |-> 4]]_vars

\* C11 witness: a reset of options that a loaded preset had changed in every
\* key.
C11_Witness ==
    /\ last.op = "resetToDefaults"
    /\ "p" \in DOMAIN presets
    /\ last.arg = presets["p"]
    /\ \A k \in DOMAIN last.arg : last.arg[k] # defaultCustomization[k]
    /\ currentOptions = defaultCustomization

\* The entries of log whose id is not id, in their order.
RECURSIVE WithoutId(_, _)
WithoutId(log, id) ==
    IF log = << >> THEN << >>
    ELSE IF Head(log).id = id THEN WithoutId(Tail(log), id)
         ELSE <<Head(log)>> \o WithoutId(Tail(log), id)

\* C12: remove(id) yields the log with exactly the entries of that id deleted
\* and every other entry kept unchanged in its order; when no entry has the
\* id the stored log is unchanged; no error is raised in either case.
C12_RemoveDeletesOnlyThatId ==
    [][last'.op = "removeItem" =>
          /\ last'.result = "ok"
          /\ getHistory' = WithoutId(getHistory, last'.arg)
          /\ \A i \in DOMAIN getHistory' : getHistory'[i].id # last'.arg
          /\ (\A i \in DOMAIN getHistory : getHistory[i].id # last'.arg)
                 => stored' = stored]_vars

\* C12 witness: the older of two entries was removed and the newer is kept.
C12_Witness ==
    /\ last.op = "removeItem"
    /\ last.arg > 0
    /\ Len(stored) = 1
    /\ stored[1].id > last.arg

\* C12 witness of the no-op: an id that no entry has was removed from a log
\* that holds entries.
C12_WitnessAbsent ==
    /\ last.op = "removeItem"
    /\ last.arg = 0
    /\ Len(stored) = MaxItems

\* C13: clear() raises no error and leaves no active record, on a service
\* without a record as on any other; it touches only the record and the
\* surface; and it is idempotent from any state: a second clear right after
\* a clear can be made and changes nothing.
C13_ClearIdempotent ==
    /\ [][last'.op = "clear" =>
             /\ last'.result = "ok"
             /\ currentQRCode' = Null
             /\ container' = WaitingState
             /\ UNCHANGED <<options, pending, nGenerated, lastGenerated, stored,
                            nextId, currentOptions>>]_vars
    /\ [](last.op = "clear" =>
             /\ currentQRCode = Null
             /\ ENABLED Clear
             /\ ~ENABLED (Clear /\ vars' # vars))

\* C13 witness: clear() was called on a service that never had a record.
C13_Witness ==
    /\ last.op = "clear"
    /\ nGenerated = 0
    /\ pending = << >>
    /\ currentQRCode = Null
    /\ container = WaitingState

\* C13 witness from a state with a record: the record of a finished call was
\* cleared.
C13_WitnessAfterRecord ==
    /\ last.op = "clear"
    /\ lastGenerated # Null
    /\ currentQRCode = Null

\* The last step was a submission of the form of the given type, and, for
\* Returned, one whose parse returned a payload.
SubmittedType(type) ==
    last.op = "generateFromCurrentType" /\ last.arg.type = type

Returned(type) == SubmittedType(type) /\ last.result # "ParseError"

\* C14: the phone formatter removes every character except digits and a
\* leading '+' (a '+' elsewhere is removed too) and returns 'tel:' followed by
\* what remains; "+55 (11) 99999-9999" yields "tel:+5511999999999".
C14_PhoneKeepsDigitsAndLeadingPlus ==
    Returned("phone") =>
        LET phone == last.arg.form.phone
            payload == last.arg.payload
            rest == SubSeq(payload, 5, Len(payload))
            IsDigit(ch) == ch \in {"0", "1", "2", "3", "4", "5", "6", "7", "8", "9"}
        IN  /\ Len(payload) >= 4
            /\ SubSeq(payload, 1, 4) = <<"t", "e", "l", ":">>
            /\ SelectSeq(rest, IsDigit) = SelectSeq(phone, IsDigit)
            /\ \A k \in 1..Len(rest) : IsDigit(rest[k]) \/ (k = 1 /\ rest[k] = "+")
            /\ phone = ExamplePhone =>
                   payload = <<"t", "e", "l", ":", "+", "5", "5", "1", "1", "9", "9", "9",
                               "9", "9", "9", "9", "9", "9">>

\* C15: formatting a phone input fails with a validation error whenever
\* nothing remains after stripping (no digit and no '+' in the input); the
\* bare payload 'tel:' is never returned.
C15_PhoneNeverBareTel ==
    SubmittedType("phone") =>
        /\ (\A k \in DOMAIN last.arg.form.phone :
                last.arg.form.phone[k] \notin
                    {"0", "1", "2", "3", "4", "5", "6", "7", "8", "9", "+"})
               => last.result = "ParseError"
        /\ last.result # "ParseError" => last.arg.payload # <<"t", "e", "l", ":">>

\* C16: when format fails (empty text, empty URL, empty or invalid email,
\* empty phone, empty SSID, vCard without a name, unsupported kind) the
\* failure is reported as an error, no generation request is issued, and the
\* current record, the surface and the history are left unchanged.
C16_FormatFailureChangesNothing ==
    [][last'.op = "generateFromCurrentType" =>
          /\ [type |-> currentType, form |-> form] \in FailingInputs
                 => last'.result = "ParseError"
          /\ last'.result = "ParseError" =>
                 /\ last'.arg.error # ""
                 /\ UNCHANGED <<currentQRCode, container, pending, stored, nGenerated,
                                lastGenerated>>]_vars

\* C16 witness: an invalid email address was submitted while a record, its
\* canvas and a history entry exist.
C16_Witness ==
    /\ SubmittedType("email")
    /\ last.result = "ParseError"
    /\ last.arg.form.email = <<"a", "@", "b">>
    /\ currentQRCode # Null
    /\ HasArtifact(container)
    /\ stored # << >>

\* C17: for a valid address the email formatter returns 'mailto:<addr>',
\* followed by '?' and the URL-encoded parameters only when subject or body is
\* non-empty: 'subject=' iff the subject is non-empty, 'body=' iff the body
\* is, subject before body, '&' between them only when both are present;
\* a@b.com with subject "Hi there" yields mailto:a@b.com?subject=Hi%20there.
C17_EmailFormat ==
    Returned("email") =>
        LET addr == StrTrim(last.arg.form.email)
            subject == StrTrim(last.arg.form.subject)
            body == StrTrim(last.arg.form.body)
            params ==
                (IF subject # << >>
                 THEN <<"s", "u", "b", "j", "e", "c", "t", "=">> \o encodeURIComponent(subject)
                 ELSE << >>)
                \o (IF subject # << >> /\ body # << >> THEN <<"&">> ELSE << >>)
                \o (IF body # << >>
                    THEN <<"b", "o", "d", "y", "=">> \o encodeURIComponent(body)
                    ELSE << >>)
        IN  /\ last.arg.payload =
                   <<"m", "a", "i", "l", "t", "o", ":">> \o addr
                   \o (IF subject = << >> /\ body = << >> THEN << >> ELSE <<"?">> \o params)
            /\ (addr = ExampleAddress /\ subject = ExampleSubject /\ body = << >>) =>
                   last.arg.payload =
                       <<"m", "a", "i", "l", "t", "o", ":", "a", "@", "b", ".", "c", "o", "m",
                         "?", "s", "u", "b", "j", "e", "c", "t", "=",
                         "H", "i", "%", "2", "0", "t", "h", "e", "r", "e">>

\* C17 witness: the example address with subject "Hi there" and body "x y".
C17_Witness ==
    /\ Returned("email")
    /\ last.arg.form.email = ExampleAddress
    /\ last.arg.form.subject = ExampleSubject
    /\ last.arg.form.body = <<"x", " ", "y">>
    /\ last.arg.payload =
           <<"m", "a", "i", "l", "t", "o", ":", "a", "@", "b", ".", "c", "o", "m",
             "?", "s", "u", "b", "j", "e", "c", "t", "=",
             "H", "i", "%", "2", "0", "t", "h", "e", "r", "e",
             "&", "b", "o", "d", "y", "=", "x", "%", "2", "0", "y">>

\* C18: for every WiFi input with a non-empty SSID the payload is exactly
\* 'WIFI:T:<security>;S:<ssid>;P:<password>;H:<true|false>;;': it starts with
\* 'WIFI:T:' and ends with ';;', the security is WPA when unspecified, 'P:' is
\* there even when the password is empty, and H is 'true' iff hidden is set.
C18_WiFiFormat ==
    Returned("wifi") =>
        LET f == last.arg.form
            payload == last.arg.payload
            security == IF f.security = << >> THEN <<"W", "P", "A">> ELSE f.security
        IN  /\ payload =
                   <<"W", "I", "F", "I", ":", "T", ":">> \o security
                   \o <<";", "S", ":">> \o StrTrim(f.ssid)
                   \o <<";", "P", ":">> \o f.password
                   \o <<";", "H", ":">>
                   \o (IF f.hidden THEN <<"t", "r", "u", "e">>
                       ELSE <<"f", "a", "l", "s", "e">>)
                   \o <<";", ";">>
            /\ SubSeq(payload, 1, 7) = <<"W", "I", "F", "I", ":", "T", ":">>
            /\ SubSeq(payload, Len(payload) - 1, Len(payload)) = <<";", ";">>

\* C18 witness: a hidden network without password and without a security
\* value.
C18_Witness ==
    /\ Returned("wifi")
    /\ last.arg.form.security = << >>
    /\ last.arg.form.password = << >>
    /\ last.arg.form.hidden
    /\ last.arg.payload =
           <<"W", "I", "F", "I", ":", "T", ":", "W", "P", "A", ";", "S", ":", "n", ";",
             "P", ":", ";", "H", ":", "t", "r", "u", "e", ";", ";">>

\* The lines of a payload.
RECURSIVE LinesOf(_, _)
LinesOf(line, rest) ==
    IF rest = << >> THEN <<line>>
    ELSE IF Head(rest) = "\n" THEN <<line>> \o LinesOf(<< >>, Tail(rest))
    ELSE LinesOf(Append(line, Head(rest)), Tail(rest))

\* Which line of a vCard a line is, by the way it starts.
LineKind(line) ==
    CASE line = <<"B", "E", "G", "I", "N", ":", "V", "C", "A", "R", "D">> -> "BEGIN"
      [] line = <<"V", "E", "R", "S", "I", "O", "N", ":", "3", ".", "0">> -> "VERSION"
      [] line = <<"E", "N", "D", ":", "V", "C", "A", "R", "D">> -> "END"
      [] StartsWith(line, <<"F", "N", ":">>) -> "FN"
      [] StartsWith(line, <<"N", ":">>) -> "N"
      [] StartsWith(line, <<"O", "R", "G", ":">>) -> "ORG"
      [] StartsWith(line, <<"T", "E", "L", ":">>) -> "TEL"
      [] StartsWith(line, <<"E", "M", "A", "I", "L", ":">>) -> "EMAIL"
      [] StartsWith(line, <<"U", "R", "L", ":">>) -> "URL"
      [] StartsWith(line, <<"A", "D", "R", ":">>) -> "ADR"
      [] OTHER -> "other"

\* C19: for every vCard input with a first or last name the payload starts
\* with BEGIN:VCARD and VERSION:3.0, holds the FN and N lines, holds each of the
\* ORG, TEL, EMAIL, URL, ADR lines iff its field is non-empty, lists the lines
\* in this order, and ends with END:VCARD.
C19_VCardLines ==
    Returned("vcard") =>
        LET f == last.arg.form
            lines == LinesOf(<< >>, last.arg.payload)
            When(value, kind) == IF StrTrim(value) # << >> THEN <<kind>> ELSE << >>
        IN  [k \in DOMAIN lines |-> LineKind(lines[k])] =
                <<"BEGIN", "VERSION", "FN", "N">>
                \o When(f.organization, "ORG") \o When(f.vphone, "TEL")
                \o When(f.vemail, "EMAIL") \o When(f.vurl, "URL")
                \o When(f.address, "ADR") \o <<"END">>

\* C20: the URL formatter returns its input unchanged when it begins with
\* 'http://' or 'https://' and with 'http://' prepended otherwise; the result
\* always begins with one of the two, and formatting it again changes nothing.
C20_UrlFormat ==
    Returned("url") =>
        LET url == StrTrim(last.arg.form.url)
            payload == last.arg.payload
            HasScheme(u) ==
                \/ Len(u) >= 7 /\ SubSeq(u, 1, 7) = <<"h", "t", "t", "p", ":", "/", "/">>
                \/ Len(u) >= 8 /\ SubSeq(u, 1, 8) = <<"h", "t", "t", "p", "s", ":", "/", "/">>
        IN  /\ HasScheme(url) => payload = url
            /\ ~HasScheme(url) => payload = <<"h", "t", "t", "p", ":", "/", "/">> \o url
            /\ HasScheme(payload)
            /\ formatURL(payload) = payload

\* C20 witness: "x.io" with blanks around it got the scheme.
C20_Witness ==
    /\ Returned("url")
    /\ last.arg.form.url = <<" ", "x", ".", "i", "o", " ">>
    /\ last.arg.payload = <<"h", "t", "t", "p", ":", "/", "/", "x", ".", "i", "o">>

\* C20 witness of the other case: an https URL came back as it was.
C20_WitnessUnchanged ==
    /\ Returned("url")
    /\ last.arg.form.url = <<"h", "t", "t", "p", "s", ":", "/", "/", "x">>
    /\ last.arg.payload = last.arg.form.url

----------------------------------------------------------------------------
(* Claims about exports, storage faults and the record on the surface *)

\* C21: an export requested while the surface holds no rendered code ends in
\* an export error, starting no file download and emitting no success
\* notification; every export call, made directly or by a click listener,
\* ends in exactly one of a success notification (with its download) and an
\* error report.
C21_ExportWithoutSurfaceFails ==
    [][/\ last'.op = "export" =>
            /\ ~HasArtifact(container) =>
                    /\ last'.result = "ExportError"
                    /\ last'.downloads = 0
                    /\ last'.shown = <<"error">>
            /\ \/ /\ last'.result = "exported"
                  /\ last'.shown = <<"success">>
                  /\ last'.downloads = 1
                  /\ errVars' = errVars
               \/ /\ last'.result = "ExportError"
                  /\ last'.shown = <<"error">>
                  /\ last'.downloads = 0
                  /\ nErrors' = nErrors + 1
                  /\ Len(errorHistory') = Len(errorHistory) + 1
       /\ last'.op = "click" =>
            /\ Len(last'.shown) = downloadListeners
            /\ last'.downloads + (nErrors' - nErrors) = downloadListeners
            /\ last'.downloads = Cardinality({i \in DOMAIN last'.shown :
                                                 last'.shown[i] = "success"})
            /\ ~HasArtifact(container) => last'.downloads = 0]_vars

\* An SVG export was asked for after a failed generation wiped the surface
\* while a record was still current, and ended in an export error.
C21_Witness ==
    /\ last.op = "export"
    /\ last.arg.format = "svg"
    /\ last.result = "ExportError"
    /\ currentQRCode # Null
    /\ container = ErrorState

\* C22: a storage failure never propagates.  While the stored history is
\* missing or unreadable the list is empty, and an append made then leaves a
\* log of exactly that one entry; when set fails during the append of the
\* qr:generated listener, the render check still ends in success with the
\* call's record as the current record, one event and no error reported.
C22_StorageFailureNeverPropagates ==
    /\ []((storageFault = "read" \/ stored = << >>) => getHistory = << >>)
    /\ [][(last'.op = "addToHistory" /\ storageFault = "read") =>
             /\ Len(getHistory') = 1
             /\ getHistory'[1].content = last'.arg.content
             /\ getHistory'[1].options = last'.arg.options]_vars
    /\ [][(last'.op = "renderCheck" /\ last'.result = "generated"
                /\ storageFault = "read") =>
             /\ Len(getHistory') = 1
             /\ getHistory'[1].content = currentQRCode'[1].content
             /\ getHistory'[1].options = currentQRCode'[1].options]_vars
    /\ [][(last'.op = "renderCheck" /\ storageFault = "write" /\ HasArtifact(container)) =>
             /\ last'.result = "generated"
             /\ currentQRCode' = Some(QRRecord(nextId, Head(pending)))
             /\ lastGenerated' = currentQRCode'
             /\ nGenerated' = nGenerated + 1
             /\ errVars' = errVars
             /\ stored' = stored]_vars

\* A render check succeeded while set was failing: the record is current and
\* the history holds nothing of it.
C22_Witness ==
    /\ storageFault = "write"
    /\ last.op = "renderCheck"
    /\ last.result = "generated"
    /\ currentQRCode # Null
    /\ \A i \in DOMAIN stored : stored[i].content # currentQRCode[1].content

\* C23: whenever the service has a current record, the surface holds the
\* rendered code of that record's content.
C23_RecordMatchesSurface ==
    currentQRCode # Null =>
        /\ HasArtifact(container)
        /\ container.canvas[1].content = currentQRCode[1].content

\* C24: a generate or regenerate call that fails leaves the current record
\* as it was before the call.  Stated for the calls that fail before they
\* wait (a failed validation, a missing record, a throwing library), for
\* which the state before the step is the state before the call.
C24_FailedCallKeepsRecord ==
    [][(last'.op \in {"generate", "regenerate"} /\ last'.result \in Failures) =>
          currentQRCode' = currentQRCode]_vars

----------------------------------------------------------------------------
(* Claims about the debounced option changes *)

\* C25: when the debounce timer fires (input has stopped for 300 ms), every
\* option key holds the last value that was given to debouncedUpdate for it,
\* also when debounced changes of other keys came in between.
C25_LastDebouncedValueStored ==
    [][last'.op = "debounceFires" =>
          \A key \in DOMAIN lastDebounced :
              currentOptions'[key] = lastDebounced[key]]_vars

\* C26: after resetToDefaults or a loadPreset that found its preset, a timer
\* that fires before the next user change leaves currentOptions at the
\* restored values.
C26_NoDebouncedUpdateAfterReset ==
    [][(/\ last.op \in {"resetToDefaults", "loadPreset"}
        /\ last.result = "ok"
        /\ last'.op = "debounceFires") =>
          currentOptions' = currentOptions]_vars

----------------------------------------------------------------------------
(* Claims about clicks, error reports and the loading overlay *)

\* C27: after any number of successful generations, a click on a download
\* button whose exports all succeed starts exactly one export: one file
\* download and one success notification.
C27_OneClickOneExport ==
    [][(/\ last'.op = "click"
        /\ nGenerated >= 1
        /\ currentQRCode # Null
        /\ HasArtifact(container)
        /\ nErrors' = nErrors) =>
          /\ last'.downloads = 1
          /\ last'.shown = <<"success">>]_vars

\* The generation attempts started from the user interface.
UIAttempts == {"submitForm", "generateFromCurrentType", "loadFromHistory"}

\* The step ends an attempt started from the user interface in a failure of
\* the generation: at once, or at its render check.
UIAttemptFails ==
    \/ /\ last'.op \in UIAttempts
       /\ last'.result \in {"CapacityExceeded", "InvalidContent", "RenderError"}
    \/ /\ last'.op = "renderCheck"
       /\ last'.result = "RenderError"
       /\ last'.arg.via \in UIAttempts

\* C28: a generation attempt started from the user interface that fails
\* shows exactly one message to the user and adds exactly one entry to the
\* error history.
C28_OneMessageOneEntryPerFailure ==
    [][UIAttemptFails =>
          /\ Len(last'.shown) = 1
          /\ nErrors' = nErrors + 1
          /\ Len(errorHistory') = Len(errorHistory) + 1]_vars

\* An attempt that shows the overlay is waiting for its check.
AttemptInFlight ==
    \/ \E i \in DOMAIN pending : ShowsLoading(pending[i].via)
    \/ previewPending > 0

\* The step ends an attempt that shows the overlay: the call failed at once,
\* its render check was made (and no preview is left to wait for), or its
\* preview check was made.
AttemptCompletes ==
    \/ /\ ShowsLoading(last'.op)
       /\ last'.result \in {"CapacityExceeded", "InvalidContent", "RenderError"}
    \/ /\ last'.op = "renderCheck"
       /\ ShowsLoading(last'.arg.via)
       /\ previewPending' = previewPending
    \/ last'.op = "previewCheck"

\* C29: the loading overlay shown for an attempt is hidden again: it is
\* hidden at the step that completes an attempt, on success and on failure,
\* a shown overlay is eventually hidden, and with no attempt in flight the
\* overlay is hidden.
C29_LoadingEventuallyHidden ==
    /\ [](~AttemptInFlight => ~loading)
    /\ [][AttemptCompletes => ~loading']_vars
    /\ (loading ~> ~loading)

\* A preview that was not drawn ended an applyCustomization, and the overlay
\* is hidden.
C29_Witness ==
    /\ last.op = "previewCheck"
    /\ last.result = "PreviewError"
    /\ ~loading

\* C30: after any sequence of handleError and clearErrorHistory calls the
\* error history holds at most 50 entries, the most recent first, and they
\* are the most recent ones: a handleError on a full history puts its entry
\* at the head and drops the oldest entry.
C30_ErrorHistoryBounded ==
    /\ [](/\ Len(errorHistory) <= maxHistorySize
          /\ \A i \in DOMAIN errorHistory : errorHistory[i].seq = nErrors - i + 1)
    /\ [][last'.op = "handleError" =>
             /\ errorHistory'[1].seq = nErrors + 1
             /\ IF Len(errorHistory) < maxHistorySize
                THEN Tail(errorHistory') = errorHistory
                ELSE Tail(errorHistory') = SubSeq(errorHistory, 1, maxHistorySize - 1)]_vars

\* The history was full when another error was handled: it still holds 50
\* entries, and more errors than that have been handled since it was cleared.
C30_Witness ==
    /\ last.op = "handleError"
    /\ Len(errorHistory) = maxHistorySize
    /\ errorHistory[1].seq - errorHistory[maxHistorySize].seq = maxHistorySize - 1
    /\ errorHistory[maxHistorySize].seq > 1

====
